---- MODULE Spec2Model ----
(***************************************************************************)
(* Model of the ceres_governance ink! contract (src/ceres_governance/      *)
(* lib.rs): the poll registry, the vote ledger and the four messages       *)
(* create_poll, vote, withdrawn and get_poll_info.  The host serialises    *)
(* the messages; the block timestamp is a monotonic clock.                 *)
(***************************************************************************)
EXTENDS Integers, FiniteSets, Sequences, TLC

\* ---------------------------------------------------------------- bounds
\* Largest block timestamp the clock reaches, and largest timestamp passed
\* to create_poll.
MaxTime == 2
\* Largest number_of_options passed to create_poll; vote is offered the
\* options 0..MaxOptions+1.
MaxOptions == 2
\* Width of the Balance type in the model (u128 in the contract).
BalanceBits == 2
\* Largest amount passed to vote.
MaxAmount == 2

\* Cap of the n_withdrawn counters.
MaxCount == 2

PollIds == {"p1", "p2"}
Accounts == {"A", "B"}

Timestamps == 0..MaxTime
BalanceModulus == 2 ^ BalanceBits
BalanceMax == BalanceModulus - 1
\* The running totals of voted amounts are counted up to TotalCap, the first
\* value the Balance type cannot hold.
TotalCap == BalanceMax + 1

\* ------------------------------------------------------- data structures
\* PollInfo::default() and VotingInfo::default()
DefaultPollInfo ==
  [number_of_options |-> 0, poll_start_timestamp |-> 0, poll_end_timestamp |-> 0]

DefaultVotingInfo ==
  [voting_option |-> 0, number_of_votes |-> 0, ceres_withdrawn |-> FALSE]

\* Mapping::get(key).unwrap_or_default()
Get(m, k, d) == IF k \in DOMAIN m THEN m[k] ELSE d

\* Mapping::insert that ignores the key and overwrites every entry.
Insert_all(m, k, v) == [x \in (DOMAIN m) \cup {k} |-> v]

\* Mapping::insert(key, value)
Insert(m, k, v) == [x \in (DOMAIN m) \cup {k} |-> IF x = k THEN v ELSE m[x]]

\* commit with the early returns missing: the write happens on every path.
commit_always(r, m, k, v) == Insert(m, k, v)

\* The store write at the end of a message: every `return Err(..)` precedes
\* the insert, so the write happens only on the Ok path.
commit(r, m, k, v) == IF r = "Ok" THEN Insert(m, k, v) ELSE m

NoEvent == [event |-> "None", poll_id |-> "-", voter |-> "-", a |-> 0, b |-> 0, c |-> 0]

Errors ==
  {"InvalidVotes", "PollIsFinished", "PollIsNotStarted", "NotEnoughFunds",
   "InvalidNumberOfOption", "VoteDenied", "InvalidStartTimestamp",
   "InvalidEndTimestamp", "PollIsNotFinished", "InvalidNumberOfVotes",
   "FundsAlreadyWithdrawn", "PollIdAlreadyExists", "PollDoesNotExist"}

VARIABLES
  poll_data,      \* Mapping<String, PollInfo>
  voting,         \* Mapping<(String, AccountId), VotingInfo>
  now,            \* self.env().block_timestamp()
  call,           \* the message last executed, with its caller and arguments
  ret,            \* what it returned: "Ok", an Error, or "Panic" (trap)
  out,            \* the PollInfo returned by get_poll_info
  emitted,        \* the event it emitted, NoEvent if none
  n_withdrawn,    \* per (poll_id, voter): number of withdrawn calls that returned Ok
  created,        \* per poll_id: the arguments of the create_poll call that
                  \* returned Ok
  voted_total,    \* per (poll_id, voter): sum of the amounts of the vote calls
                  \* that returned Ok
  event_total     \* per (poll_id, voter): sum of the amounts of the Voted events

history == <<created, voted_total, event_total>>

vars == <<poll_data, voting, now, call, ret, out, emitted, n_withdrawn, history>>

Keys == PollIds \X Accounts

Call(op, poll_id, caller, option, amount, start, end) ==
  [op |-> op, poll_id |-> poll_id, caller |-> caller, option |-> option,
   amount |-> amount, start |-> start, end |-> end]

\* CeresGovernance::new()
Init ==
  /\ poll_data = [p \in {} |-> DefaultPollInfo]
  /\ voting = [k \in {} |-> DefaultVotingInfo]
  /\ now = 0
  /\ call = Call("new", "-", "-", 0, 0, 0, 0)
  /\ ret = "Ok"
  /\ out = DefaultPollInfo
  /\ emitted = NoEvent
  /\ n_withdrawn = [k \in Keys |-> 0]
  /\ created = [p \in {} |-> DefaultPollInfo]
  /\ voted_total = [k \in Keys |-> 0]
  /\ event_total = [k \in Keys |-> 0]

\* ------------------------------------------------------------ create_poll
\* create_poll_check without the test for an existing poll.
create_poll_check_no_exists(poll_info, number_of_options, poll_start_timestamp, poll_end_timestamp, current_timestamp) ==
  IF number_of_options < 2 THEN "InvalidNumberOfOption"
  ELSE IF poll_start_timestamp < current_timestamp THEN "InvalidStartTimestamp"
  ELSE IF poll_end_timestamp <= poll_start_timestamp THEN "InvalidEndTimestamp"
  ELSE "Ok"

\* new_poll_info with the two timestamps exchanged.
new_poll_info_swapped(number_of_options, poll_start_timestamp, poll_end_timestamp) ==
  [number_of_options |-> number_of_options,
   poll_start_timestamp |-> poll_end_timestamp,
   poll_end_timestamp |-> poll_start_timestamp]

\* The PollInfo create_poll builds from its arguments.
new_poll_info(number_of_options, poll_start_timestamp, poll_end_timestamp) ==
  [number_of_options |-> number_of_options,
   poll_start_timestamp |-> poll_start_timestamp,
   poll_end_timestamp |-> poll_end_timestamp]

\* create_poll_check with the end test made before the start test.
create_poll_check_end_first(poll_info, number_of_options, poll_start_timestamp, poll_end_timestamp, current_timestamp) ==
  IF poll_info.number_of_options # 0 THEN "PollIdAlreadyExists"
  ELSE IF number_of_options < 2 THEN "InvalidNumberOfOption"
  ELSE IF poll_end_timestamp <= poll_start_timestamp THEN "InvalidEndTimestamp"
  ELSE IF poll_start_timestamp < current_timestamp THEN "InvalidStartTimestamp"
  ELSE "Ok"

\* create_poll_check without the start test.
create_poll_check_no_start(poll_info, number_of_options, poll_start_timestamp, poll_end_timestamp, current_timestamp) ==
  IF poll_info.number_of_options # 0 THEN "PollIdAlreadyExists"
  ELSE IF number_of_options < 2 THEN "InvalidNumberOfOption"
  ELSE IF poll_end_timestamp <= poll_start_timestamp THEN "InvalidEndTimestamp"
  ELSE "Ok"

\* The precondition checks of create_poll, in the order of the code.
create_poll_check(poll_info, number_of_options, poll_start_timestamp, poll_end_timestamp, current_timestamp) ==
  IF poll_info.number_of_options # 0 THEN "PollIdAlreadyExists"
  ELSE IF number_of_options < 2 THEN "InvalidNumberOfOption"
  ELSE IF poll_start_timestamp < current_timestamp THEN "InvalidStartTimestamp"
  ELSE IF poll_end_timestamp <= poll_start_timestamp THEN "InvalidEndTimestamp"
  ELSE "Ok"

create_poll(poll_id, number_of_options, poll_start_timestamp, poll_end_timestamp) ==
  LET poll_info == Get(poll_data, poll_id, DefaultPollInfo)
      r == create_poll_check(poll_info, number_of_options, poll_start_timestamp,
                             poll_end_timestamp, now)
      new_info == new_poll_info(number_of_options, poll_start_timestamp,
                                poll_end_timestamp)
      passed == [number_of_options |-> number_of_options,
                 poll_start_timestamp |-> poll_start_timestamp,
                 poll_end_timestamp |-> poll_end_timestamp]
  IN /\ call' = Call("create_poll", poll_id, "-", number_of_options, 0,
                     poll_start_timestamp, poll_end_timestamp)
     /\ ret' = r
     /\ poll_data' = commit(r, poll_data, poll_id, new_info)
     /\ emitted' = IF r = "Ok"
                     THEN [event |-> "PollCreated", poll_id |-> poll_id,
                           voter |-> "-", a |-> number_of_options,
                           b |-> poll_start_timestamp, c |-> poll_end_timestamp]
                     ELSE NoEvent
     /\ out' = DefaultPollInfo
     /\ created' = IF r = "Ok"
                     THEN Insert(created, poll_id, passed)
                     ELSE created
     /\ UNCHANGED <<voting, now, n_withdrawn, voted_total, event_total>>

\* ------------------------------------------------------------------ vote
\* vote_check without the VoteDenied branch of the option lock.
vote_check_no_lock(poll_info, voting_info, voting_option, number_of_votes, current_timestamp) ==
  IF number_of_votes <= 0 THEN "InvalidNumberOfVotes"
  ELSE IF current_timestamp < poll_info.poll_start_timestamp THEN "PollIsNotStarted"
  ELSE IF current_timestamp > poll_info.poll_end_timestamp THEN "PollIsFinished"
  ELSE IF voting_option > poll_info.number_of_options THEN "InvalidNumberOfOption"
  ELSE "Ok"

\* vote_check with the end of the window excluded.
vote_check_end_exclusive(poll_info, voting_info, voting_option, number_of_votes, current_timestamp) ==
  IF number_of_votes <= 0 THEN "InvalidNumberOfVotes"
  ELSE IF current_timestamp < poll_info.poll_start_timestamp THEN "PollIsNotStarted"
  ELSE IF current_timestamp >= poll_info.poll_end_timestamp THEN "PollIsFinished"
  ELSE IF voting_option > poll_info.number_of_options THEN "InvalidNumberOfOption"
  ELSE IF voting_info.voting_option # 0 /\ voting_info.voting_option # voting_option
    THEN "VoteDenied"
  ELSE "Ok"

\* vote_check with a test for the poll's existence after the weight test.
vote_check_exists(poll_info, voting_info, voting_option, number_of_votes, current_timestamp) ==
  IF number_of_votes <= 0 THEN "InvalidNumberOfVotes"
  ELSE IF poll_info.number_of_options = 0 THEN "PollDoesNotExist"
  ELSE IF current_timestamp < poll_info.poll_start_timestamp THEN "PollIsNotStarted"
  ELSE IF current_timestamp > poll_info.poll_end_timestamp THEN "PollIsFinished"
  ELSE IF voting_option > poll_info.number_of_options THEN "InvalidNumberOfOption"
  ELSE IF voting_info.voting_option # 0 /\ voting_info.voting_option # voting_option
    THEN "VoteDenied"
  ELSE "Ok"

\* The checks of vote up to and including the option lock, in code order.
vote_check(poll_info, voting_info, voting_option, number_of_votes, current_timestamp) ==
  IF number_of_votes <= 0 THEN "InvalidNumberOfVotes"
  ELSE IF current_timestamp < poll_info.poll_start_timestamp THEN "PollIsNotStarted"
  ELSE IF current_timestamp > poll_info.poll_end_timestamp THEN "PollIsFinished"
  ELSE IF voting_option > poll_info.number_of_options THEN "InvalidNumberOfOption"
  ELSE IF voting_info.voting_option # 0 /\ voting_info.voting_option # voting_option
    THEN "VoteDenied"
  ELSE "Ok"

\* voting_info after the option lock and the accumulation; sum is the value
\* the Balance field receives.
vote_update(voting_info, voting_option, sum) ==
  [voting_info EXCEPT
     !.voting_option = IF voting_info.voting_option = 0 THEN voting_option ELSE @,
     !.number_of_votes = sum]

\* The outcomes of `voting_info.number_of_votes += number_of_votes` on the
\* Balance type: the exact sum when it fits; otherwise the build decides,
\* a panic (overflow checks on) or the wrapped sum (overflow checks off).
add_outcomes(x, y) ==
  IF x + y <= BalanceMax
    THEN {[panic |-> FALSE, value |-> x + y]}
    ELSE {[panic |-> TRUE, value |-> x],
          [panic |-> FALSE, value |-> (x + y) % BalanceModulus]}

\* Addition of the running totals, which stops at TotalCap.
add_capped(x, y) == IF x + y < TotalCap THEN x + y ELSE TotalCap

vote(caller, poll_id, voting_option, number_of_votes) ==
  LET poll_info == Get(poll_data, poll_id, DefaultPollInfo)
      voting_info == Get(voting, <<poll_id, caller>>, DefaultVotingInfo)
      r == vote_check(poll_info, voting_info, voting_option, number_of_votes, now)
      sums == IF r = "Ok"
                THEN add_outcomes(voting_info.number_of_votes, number_of_votes)
                ELSE {[panic |-> FALSE, value |-> voting_info.number_of_votes]}
  IN \E o \in sums :
       LET res == IF o.panic THEN "Panic" ELSE r
       IN /\ call' = Call("vote", poll_id, caller, voting_option, number_of_votes, 0, 0)
          /\ ret' = res
          /\ voting' = commit(res, voting, <<poll_id, caller>>,
                              vote_update(voting_info, voting_option, o.value))
          /\ emitted' = IF res = "Ok"
                          THEN [event |-> "Voted", poll_id |-> poll_id,
                                voter |-> caller, a |-> voting_option,
                                b |-> number_of_votes, c |-> 0]
                          ELSE NoEvent
          /\ out' = DefaultPollInfo
          /\ voted_total' = IF res = "Ok"
                              THEN [voted_total EXCEPT ![<<poll_id, caller>>] =
                                      add_capped(@, number_of_votes)]
                              ELSE voted_total
          /\ event_total' = [k \in Keys |->
                               IF emitted'.event = "Voted" /\ emitted'.poll_id = k[1]
                                  /\ emitted'.voter = k[2]
                                 THEN add_capped(event_total[k], emitted'.b)
                                 ELSE event_total[k]]
          /\ UNCHANGED <<poll_data, now, n_withdrawn, created>>

\* ------------------------------------------------------------- withdrawn
\* withdrawn_check without the PollIsNotFinished test.
withdrawn_check_no_end(poll_info, voting_info, current_timestamp) ==
  IF poll_info.number_of_options = 0 THEN "PollDoesNotExist"
  ELSE IF voting_info.number_of_votes = 0 THEN "InvalidVotes"
  ELSE IF voting_info.ceres_withdrawn = TRUE THEN "FundsAlreadyWithdrawn"
  ELSE "Ok"

\* withdrawn_check without the FundsAlreadyWithdrawn test.
withdrawn_check_no_flag(poll_info, voting_info, current_timestamp) ==
  IF poll_info.number_of_options = 0 THEN "PollDoesNotExist"
  ELSE IF current_timestamp < poll_info.poll_end_timestamp THEN "PollIsNotFinished"
  ELSE IF voting_info.number_of_votes = 0 THEN "InvalidVotes"
  ELSE "Ok"

\* withdrawn_check with the InvalidVotes test moved before the time test.
withdrawn_check_votes_first(poll_info, voting_info, current_timestamp) ==
  IF poll_info.number_of_options = 0 THEN "PollDoesNotExist"
  ELSE IF voting_info.number_of_votes = 0 THEN "InvalidVotes"
  ELSE IF current_timestamp < poll_info.poll_end_timestamp THEN "PollIsNotFinished"
  ELSE IF voting_info.ceres_withdrawn = TRUE THEN "FundsAlreadyWithdrawn"
  ELSE "Ok"

\* The precondition checks of withdrawn, in the order of the code.
withdrawn_check(poll_info, voting_info, current_timestamp) ==
  IF poll_info.number_of_options = 0 THEN "PollDoesNotExist"
  ELSE IF current_timestamp < poll_info.poll_end_timestamp THEN "PollIsNotFinished"
  ELSE IF voting_info.number_of_votes = 0 THEN "InvalidVotes"
  ELSE IF voting_info.ceres_withdrawn = TRUE THEN "FundsAlreadyWithdrawn"
  ELSE "Ok"

withdrawn(caller, poll_id) ==
  LET poll_info == Get(poll_data, poll_id, DefaultPollInfo)
      voting_info == Get(voting, <<poll_id, caller>>, DefaultVotingInfo)
      r == withdrawn_check(poll_info, voting_info, now)
  IN /\ call' = Call("withdrawn", poll_id, caller, 0, 0, 0, 0)
     /\ ret' = r
     /\ out' = DefaultPollInfo
     /\ voting' = commit(r, voting, <<poll_id, caller>>,
                         [voting_info EXCEPT !.ceres_withdrawn = TRUE])
     /\ IF r = "Ok"
          THEN /\ emitted' = [event |-> "FundsWithdrawn", poll_id |-> "-",
                              voter |-> caller, a |-> voting_info.number_of_votes,
                              b |-> 0, c |-> 0]
               /\ n_withdrawn' = [n_withdrawn EXCEPT ![<<poll_id, caller>>] =
                                    IF @ < MaxCount THEN @ + 1 ELSE @]
          ELSE /\ emitted' = NoEvent
               /\ n_withdrawn' = n_withdrawn
     /\ UNCHANGED <<poll_data, now, history>>

\* --------------------------------------------------------- get_poll_info
get_poll_info(poll_id) ==
  LET poll_info == Get(poll_data, poll_id, DefaultPollInfo)
  IN /\ call' = Call("get_poll_info", poll_id, "-", 0, 0, 0, 0)
     /\ IF poll_info.number_of_options = 0
          THEN /\ ret' = "PollDoesNotExist"
               /\ out' = DefaultPollInfo
          ELSE /\ ret' = "Ok"
               /\ out' = poll_info
     /\ emitted' = NoEvent
     /\ UNCHANGED <<poll_data, voting, now, n_withdrawn, history>>

\* ----------------------------------------------------------------- clock
\* The host advances the block timestamp between messages; call records the
\* step as "tick" so that no message is read as executed at the new time.
Tick ==
  /\ now < MaxTime
  /\ now' = now + 1
  /\ call' = Call("tick", "-", "-", 0, 0, 0, 0)
  /\ ret' = "Ok"
  /\ out' = DefaultPollInfo
  /\ emitted' = NoEvent
  /\ UNCHANGED <<poll_data, voting, n_withdrawn, history>>

\* One poll and one voter, every argument of every message.
Next ==
  \/ \E p \in {"p1"}, n \in 1..MaxOptions, s \in Timestamps, e \in Timestamps :
       create_poll(p, n, s, e)
  \/ \E c \in {"A"}, p \in {"p1"}, o \in 0..(MaxOptions + 1), a \in 0..MaxAmount :
       vote(c, p, o, a)
  \/ \E c \in {"A"}, p \in {"p1"} : withdrawn(c, p)
  \/ \E p \in {"p1"} : get_poll_info(p)
  \/ Tick

Spec == Init /\ [][Next]_vars

\* One poll and every voter; create_poll is offered the schedules that
\* start at 0 with the largest option count, vote the first and the last
\* option and the amounts that pass its first check.
NextVoters ==
  \/ \E p \in {"p1"}, e \in Timestamps : create_poll(p, MaxOptions, 0, e)
  \/ \E c \in Accounts, p \in {"p1"}, o \in {1, MaxOptions}, a \in 1..MaxAmount :
       vote(c, p, o, a)
  \/ \E c \in Accounts, p \in {"p1"} : withdrawn(c, p)
  \/ \E p \in {"p1"} : get_poll_info(p)
  \/ Tick

SpecVoters == Init /\ [][NextVoters]_vars

\* Every poll and every voter; create_poll is offered one schedule per end
\* timestamp, and each voter votes on each poll until one vote returns Ok,
\* with the first or the last option and the largest amount.
NextIso ==
  \/ \E p \in PollIds, e \in {1, MaxTime} : create_poll(p, MaxOptions, 0, e)
  \/ \E c \in Accounts, p \in PollIds, o \in {1, MaxOptions} :
       voted_total[<<p, c>>] = 0 /\ vote(c, p, o, MaxAmount)
  \/ \E c \in Accounts, p \in PollIds : withdrawn(c, p)
  \/ \E p \in PollIds : get_poll_info(p)
  \/ Tick

SpecIso == Init /\ [][NextIso]_vars

\* Spec with the schedule claim C18 assumes: the clock keeps advancing up to
\* MaxTime, and the voter keeps calling withdrawn, so that a call which can
\* return Ok time and again is eventually made.
SpecLive ==
  /\ Spec
  /\ WF_vars(Tick)
  /\ \A c \in {"A"}, p \in {"p1"} : SF_vars(withdrawn(c, p))

TypeOK ==
  /\ DOMAIN poll_data \subseteq PollIds
  /\ DOMAIN voting \subseteq Keys
  /\ now \in Timestamps
  /\ ret \in Errors \cup {"Ok", "Panic"}
  /\ \A k \in DOMAIN voting : voting[k].number_of_votes \in 0..BalanceMax

\* ------------------------------------------------------------ properties
\* The record and the poll a key denotes, as the messages read them.
Rec(k) == Get(voting, k, DefaultVotingInfo)
Poll(p) == Get(poll_data, p, DefaultPollInfo)

PollExists(p) == Poll(p).number_of_options # 0

\* The step just taken executed message op for the ledger key k.
Did(op, k) == call.op = op /\ call.poll_id = k[1] /\ call.caller = k[2]

\* C1: once the stored voting_option of a (poll_id, voter) record is
\* non-zero no step changes it, and a vote of that voter on that poll which
\* passes the weight, time-window and option-range checks but names another
\* option returns VoteDenied and leaves the record as it was.
C1_OptionLocked ==
  [][\A k \in Keys :
       Rec(k).voting_option # 0 =>
         /\ Rec(k)'.voting_option = Rec(k).voting_option
         /\ ( /\ Did("vote", k)'
              /\ call'.amount > 0
              /\ Poll(k[1]).poll_start_timestamp <= now
              /\ now <= Poll(k[1]).poll_end_timestamp
              /\ call'.option <= Poll(k[1]).number_of_options
              /\ call'.option # Rec(k).voting_option )
            => (ret' = "VoteDenied" /\ Rec(k)' = Rec(k))]_vars

C1_Witness ==
  \E k \in Keys :
    /\ Did("vote", k)
    /\ ret = "VoteDenied"
    /\ Rec(k).voting_option # 0
    /\ Rec(k).number_of_votes > 0
    /\ call.option # Rec(k).voting_option

\* C2: a record with withdrawn = true is terminal: no step changes its
\* voting_option, number_of_votes or withdrawn flag.
C2_WithdrawnTerminal ==
  [][\A k \in Keys : Rec(k).ceres_withdrawn => Rec(k)' = Rec(k)]_vars

\* C3: the withdrawn flag never goes back to false, it is set only by a
\* withdrawn message of that voter on that poll which returns Ok, never in a
\* step taken before the poll's end, and at most once per record.
C3_WithdrawnFlag ==
  /\ [][\A k \in Keys :
          /\ Rec(k).ceres_withdrawn => Rec(k)'.ceres_withdrawn
          /\ (~Rec(k).ceres_withdrawn /\ Rec(k)'.ceres_withdrawn) =>
               /\ Did("withdrawn", k)'
               /\ ret' = "Ok"
               /\ PollExists(k[1])
               /\ ~(now < Poll(k[1]).poll_end_timestamp)]_vars
  /\ [](\A k \in Keys : n_withdrawn[k] <= 1)

C3_Witness ==
  \E k \in Keys, j \in Keys :
    /\ j # k
    /\ Did("withdrawn", k)
    /\ ret = "Ok"
    /\ Rec(k).ceres_withdrawn
    /\ n_withdrawn[k] = 1
    /\ now >= Poll(k[1]).poll_end_timestamp
    /\ Rec(j).number_of_votes > 0
    /\ ~Rec(j).ceres_withdrawn

\* C4: number_of_votes of a record never decreases in a step, changes only
\* in a vote of that voter on that poll that returns Ok while
\* poll_start_timestamp <= current_time <= poll_end_timestamp, and is frozen
\* once current_time > poll_end_timestamp.
C4_WeightMonotone ==
  [][\A k \in Keys :
       /\ Rec(k)'.number_of_votes >= Rec(k).number_of_votes
       /\ Rec(k)'.number_of_votes # Rec(k).number_of_votes =>
            /\ Did("vote", k)'
            /\ ret' = "Ok"
            /\ Poll(k[1]).poll_start_timestamp <= now
            /\ now <= Poll(k[1]).poll_end_timestamp
       /\ (PollExists(k[1]) /\ now > Poll(k[1]).poll_end_timestamp) =>
            Rec(k)'.number_of_votes = Rec(k).number_of_votes]_vars

\* C5: once a poll_id has a stored Poll, every create_poll with that id
\* returns PollIdAlreadyExists and no step changes the stored Poll.
C5_PollFixed ==
  [][\A p \in PollIds :
       p \in DOMAIN poll_data =>
         /\ p \in DOMAIN poll_data'
         /\ poll_data'[p] = poll_data[p]
         /\ (call'.op = "create_poll" /\ call'.poll_id = p) =>
              ret' = "PollIdAlreadyExists"]_vars

C5_Witness ==
  /\ call.op = "create_poll"
  /\ ret = "PollIdAlreadyExists"
  /\ call.poll_id \in DOMAIN poll_data
  /\ call.option >= 2
  /\ call.start >= now
  /\ call.end > call.start
  /\ \/ poll_data[call.poll_id].poll_start_timestamp # call.start
     \/ poll_data[call.poll_id].poll_end_timestamp # call.end

\* C6: a message that returns an error leaves the poll registry and the
\* vote ledger as they were and emits no event.
C6_ErrorsCommitNothing ==
  [][ret' \in Errors =>
       /\ poll_data' = poll_data
       /\ voting' = voting
       /\ emitted' = NoEvent]_vars

C6_Witness ==
  /\ ret \in Errors
  /\ call.op \in {"vote", "withdrawn"}
  /\ PollExists(call.poll_id)
  /\ Rec(<<call.poll_id, call.caller>>).number_of_votes > 0

\* C7: for a voter with positive recorded weight on an existing poll, a
\* withdrawn message before poll_end_timestamp returns PollIsNotFinished;
\* from the end on it returns Ok and emits FundsWithdrawn with the recorded
\* weight if the record is not yet withdrawn, and FundsAlreadyWithdrawn if it
\* is; so withdrawn returns Ok at most once per (poll_id, voter).
C7_WithdrawOnce ==
  /\ [][\A k \in Keys :
          (Did("withdrawn", k)' /\ PollExists(k[1]) /\ Rec(k).number_of_votes > 0) =>
            /\ now < Poll(k[1]).poll_end_timestamp => ret' = "PollIsNotFinished"
            /\ (now >= Poll(k[1]).poll_end_timestamp /\ ~Rec(k).ceres_withdrawn) =>
                 /\ ret' = "Ok"
                 /\ emitted' = [event |-> "FundsWithdrawn", poll_id |-> "-",
                                voter |-> k[2], a |-> Rec(k).number_of_votes,
                                b |-> 0, c |-> 0]
            /\ (now >= Poll(k[1]).poll_end_timestamp /\ Rec(k).ceres_withdrawn) =>
                 ret' = "FundsAlreadyWithdrawn"]_vars
  /\ [](\A k \in Keys : n_withdrawn[k] = IF Rec(k).ceres_withdrawn THEN 1 ELSE 0)

C7_Witness ==
  \E k \in Keys :
    /\ Did("withdrawn", k)
    /\ ret = "FundsAlreadyWithdrawn"
    /\ n_withdrawn[k] = 1
    /\ Rec(k).number_of_votes > 0

\* C8 as stated: a withdrawn message of a voter whose record for an existing
\* poll has number_of_votes = 0 returns InvalidVotes at every current_time.
C8_ZeroWeightAnyTime ==
  [][\A k \in Keys :
       (Did("withdrawn", k)' /\ PollExists(k[1]) /\ Rec(k).number_of_votes = 0) =>
         ret' = "InvalidVotes"]_vars

\* C8 as amended: a withdrawn message of a voter whose record for an
\* existing poll has number_of_votes = 0 returns PollIsNotFinished while
\* current_time < poll_end_timestamp and InvalidVotes from then on, whether
\* the record is absent or not.
C8_ZeroWeightAfterEnd ==
  [][\A k \in Keys :
       (Did("withdrawn", k)' /\ PollExists(k[1]) /\ Rec(k).number_of_votes = 0) =>
         ret' = IF now < Poll(k[1]).poll_end_timestamp
                  THEN "PollIsNotFinished" ELSE "InvalidVotes"]_vars

C8_Witness ==
  \E k \in Keys :
    /\ Did("withdrawn", k)
    /\ ret = "InvalidVotes"
    /\ PollExists(k[1])
    /\ now >= Poll(k[1]).poll_end_timestamp
    /\ Rec(k).number_of_votes = 0

\* C9: vote is total and its accumulation exact: every vote returns Ok or
\* one of the enumerated errors, and a vote that returns Ok leaves
\* number_of_votes equal to the stored value plus the requested amount.
C9_VoteTotal ==
  [][\A k \in Keys :
       Did("vote", k)' =>
         /\ ret' \in Errors \cup {"Ok"}
         /\ ret' = "Ok" =>
              Rec(k)'.number_of_votes = Rec(k).number_of_votes + call'.amount]_vars

\* C10: voting_option = 0 is exactly the mark of "no vote cast yet": a
\* record has number_of_votes > 0 iff its voting_option is non-zero, and a
\* non-zero stored voting_option lies in 1..number_of_options of its poll.
C10_SentinelExact ==
  \A k \in DOMAIN voting :
    /\ (voting[k].number_of_votes > 0) <=> (voting[k].voting_option # 0)
    /\ voting[k].voting_option # 0 =>
         voting[k].voting_option \in 1..Poll(k[1]).number_of_options

\* C11: create_poll returns the error of the first failing precondition in
\* the order existing poll, number_of_options < 2, start < current_time,
\* end <= start, and returns Ok iff none of the four fails.
C11_CreateOrder ==
  [][call'.op = "create_poll" =>
       LET exists == call'.poll_id \in DOMAIN poll_data
           few == call'.option < 2
           early == call'.start < now
           short == call'.end <= call'.start
       IN /\ exists => ret' = "PollIdAlreadyExists"
          /\ (~exists /\ few) => ret' = "InvalidNumberOfOption"
          /\ (~exists /\ ~few /\ early) => ret' = "InvalidStartTimestamp"
          /\ (~exists /\ ~few /\ ~early /\ short) => ret' = "InvalidEndTimestamp"
          /\ ret' = "Ok" <=> (~exists /\ ~few /\ ~early /\ ~short)]_vars

C11_Witness ==
  /\ call.op = "create_poll"
  /\ ret = "InvalidStartTimestamp"
  /\ call.start < now
  /\ call.end <= call.start
  /\ call.poll_id \notin DOMAIN poll_data

\* C12: create_poll with a fresh id, number_of_options >= 2, start >=
\* current_time and end > start returns Ok; from then on every get_poll_info
\* of that id returns Ok with exactly the number_of_options, start and end
\* that were passed, and get_poll_info of an id never created returns
\* PollDoesNotExist.
C12_CreateThenGet ==
  [][/\ ( /\ call'.op = "create_poll"
          /\ call'.poll_id \notin DOMAIN created
          /\ call'.option >= 2
          /\ call'.start >= now
          /\ call'.end > call'.start )
        => (ret' = "Ok" /\ call'.poll_id \in DOMAIN created')
     /\ call'.op = "get_poll_info" =>
          IF call'.poll_id \in DOMAIN created
            THEN ret' = "Ok" /\ out' = created[call'.poll_id]
            ELSE ret' = "PollDoesNotExist"]_vars

C12_Witness ==
  /\ call.op = "get_poll_info"
  /\ ret = "Ok"
  /\ out = created[call.poll_id]
  /\ out.poll_start_timestamp > 0
  /\ now >= out.poll_end_timestamp
  /\ \E k \in DOMAIN voting : voting[k].ceres_withdrawn

\* C13: the stored number_of_votes of every (poll_id, voter) record equals
\* the sum of the amounts of the vote calls of that voter on that poll that
\* returned Ok, which equals the sum of the amounts of the Voted events
\* emitted for the pair.
C13_WeightIsSum ==
  \A k \in Keys :
    /\ Rec(k).number_of_votes = voted_total[k]
    /\ voted_total[k] = event_total[k]

\* C14: a vote with a positive weight on an existing poll returns
\* PollIsNotStarted exactly when current_time < poll_start_timestamp and
\* PollIsFinished exactly when current_time > poll_end_timestamp, whatever
\* the option and the caller's record, so a vote at the start or at the end
\* timestamp is inside the window; a rejected vote leaves the record as it was.
C14_VoteWindow ==
  [][\A k \in Keys :
       (Did("vote", k)' /\ PollExists(k[1]) /\ call'.amount > 0) =>
         /\ ret' = "PollIsNotStarted" <=> now < Poll(k[1]).poll_start_timestamp
         /\ ret' = "PollIsFinished" <=> now > Poll(k[1]).poll_end_timestamp
         /\ ret' \in Errors => (voting' = voting /\ Rec(k)' = Rec(k))]_vars

C14_Witness ==
  \E k \in Keys :
    /\ Did("vote", k)
    /\ ret = "PollIsFinished"
    /\ PollExists(k[1])
    /\ now > Poll(k[1]).poll_end_timestamp
    /\ Rec(k).number_of_votes > 0
    /\ call.option = Rec(k).voting_option

\* C15: a vote with a positive weight on a poll_id that has no Poll, made
\* at a current_time > 0, returns PollIsFinished whatever the option and
\* writes nothing to the ledger.
C15_VoteUnknownPoll ==
  [][\A k \in Keys :
       ( /\ Did("vote", k)'
         /\ k[1] \notin DOMAIN poll_data
         /\ call'.amount > 0
         /\ now > 0 )
       => (ret' = "PollIsFinished" /\ voting' = voting)]_vars

C15_Witness ==
  \E k \in Keys :
    /\ Did("vote", k)
    /\ k[1] \notin DOMAIN poll_data
    /\ call.amount > 0
    /\ call.option = 0
    /\ now > 0
    /\ ret = "PollIsFinished"

\* C16: every Poll in the registry has number_of_options >= 2 and
\* poll_end_timestamp > poll_start_timestamp, and the step that stores it
\* is taken at a current_time not later than its poll_start_timestamp.
C16_StoredPollValid ==
  /\ [](\A p \in DOMAIN poll_data :
          /\ poll_data[p].number_of_options >= 2
          /\ poll_data[p].poll_end_timestamp > poll_data[p].poll_start_timestamp)
  /\ [][\A p \in PollIds :
          (p \notin DOMAIN poll_data /\ p \in DOMAIN poll_data') =>
            poll_data'[p].poll_start_timestamp >= now]_vars

C16_Witness ==
  /\ call.op = "create_poll"
  /\ ret = "Ok"
  /\ now > 0
  /\ call.poll_id \in DOMAIN poll_data
  /\ poll_data[call.poll_id].poll_start_timestamp = now

\* C17: the amount of the FundsWithdrawn event of a (poll_id, voter) equals
\* the total of the amounts that voter's Ok votes on that poll add up to
\* over the whole run: it is that total when the withdrawal is made, and no
\* vote of the pair returns Ok once its record is withdrawn.
C17_Conservation ==
  [][\A k \in Keys :
       /\ (Did("withdrawn", k)' /\ ret' = "Ok") => emitted'.a = voted_total[k]
       /\ Rec(k).ceres_withdrawn => voted_total'[k] = voted_total[k]]_vars

\* C18: whenever the poll exists, current_time >= poll_end_timestamp and
\* the caller's record has number_of_votes > 0 and is not withdrawn, a
\* withdrawn call of that caller returns Ok and sets the flag; hence, with
\* the clock advancing and the voter calling withdrawn again and again,
\* every record of an existing poll that has positive weight is eventually
\* withdrawn.
C18_NoStuckFunds ==
  /\ [][\A k \in Keys :
          ( /\ Did("withdrawn", k)'
            /\ PollExists(k[1])
            /\ now >= Poll(k[1]).poll_end_timestamp
            /\ Rec(k).number_of_votes > 0
            /\ ~Rec(k).ceres_withdrawn )
          => (ret' = "Ok" /\ Rec(k)'.ceres_withdrawn)]_vars
  /\ \A k \in Keys :
       (PollExists(k[1]) /\ Rec(k).number_of_votes > 0) ~> Rec(k).ceres_withdrawn

\* C19: a vote or withdrawn of caller A on poll p changes at most the ledger
\* entry (p, A) and leaves the registry and every other ledger entry as they
\* were; create_poll changes at most the registry entry of its poll_id and
\* leaves the ledger as it was; get_poll_info changes neither store.
SameEntry(m, k) == (k \in DOMAIN m' <=> k \in DOMAIN m) /\ (k \in DOMAIN m => m'[k] = m[k])

C19_Isolation ==
  [][/\ call'.op \in {"vote", "withdrawn"} =>
          /\ poll_data' = poll_data
          /\ \A k \in Keys : k # <<call'.poll_id, call'.caller>> => SameEntry(voting, k)
     /\ call'.op = "create_poll" =>
          /\ voting' = voting
          /\ \A p \in PollIds : p # call'.poll_id => SameEntry(poll_data, p)
     /\ call'.op = "get_poll_info" => (poll_data' = poll_data /\ voting' = voting)]_vars

C19_Witness ==
  \E k \in Keys, j \in Keys, l \in Keys :
    /\ Did("withdrawn", k)
    /\ ret = "Ok"
    /\ j[1] = k[1] /\ j[2] # k[2]
    /\ l[1] # k[1]
    /\ Rec(k).voting_option # Rec(j).voting_option
    /\ Rec(j).number_of_votes > 0 /\ ~Rec(j).ceres_withdrawn
    /\ Rec(l).number_of_votes > 0 /\ ~Rec(l).ceres_withdrawn
    /\ poll_data[k[1]] # poll_data[l[1]]

\* C20: every entry of the vote ledger belongs to a poll that exists in the
\* registry, at every clock value: vote never returns Ok and never writes a
\* record for a poll_id that has no Poll.
C20_LedgerHasPoll ==
  /\ [](\A k \in DOMAIN voting : k[1] \in DOMAIN poll_data)
  /\ [][\A k \in Keys :
          (Did("vote", k)' /\ k[1] \notin DOMAIN poll_data) =>
            (ret' # "Ok" /\ voting' = voting)]_vars
====
